---- MODULE Spec2Model ----
(***************************************************************************)
(* FinRisk-Lab: the risk-analytics functions of src/src (portfolio engine,  *)
(* stress engine, metrics), modelled as a library that a caller invokes one *)
(* function at a time.  The library keeps no state between calls; the state *)
(* of the model is the call in progress: which function was called, with    *)
(* which arguments, and what it returned or raised.  A second specification *)
(* (MainSpec) is one run of main() of src/src/main.py: the stage the run is *)
(* at, the data it was configured with and fetched, the stages it has       *)
(* executed, the error that ended it and the files it has written.          *)
(*                                                                         *)
(* Numbers.  TLC has integers only, so every real number of the program is  *)
(* held exactly, as an integer over a stated denominator:                   *)
(*   - a weight dict is [den, keys, val]: keys is the insertion order of    *)
(*     the dict, and the weight of k is val[k] / den;                       *)
(*   - a cell of a return table is <<>> (NaN, no value) or <<v>>;           *)
(*   - a number a function returns is a record: a quotient num/den with     *)
(*     den > 0, a square root held by its radicand, or NaN.                 *)
(***************************************************************************)
EXTENDS Integers, Sequences, FiniteSets, TLC

VARIABLES pc, op, args, ret,
          stage, PORTFOLIO_WEIGHTS, cleaned_data, benchmark_clean,
          executed, raised, files

\* the call in progress, and the run of main()
libvars == <<pc, op, args, ret>>

mainvars == <<stage, PORTFOLIO_WEIGHTS, cleaned_data, benchmark_clean, executed, raised, files>>

vars == <<pc, op, args, ret,
          stage, PORTFOLIO_WEIGHTS, cleaned_data, benchmark_clean, executed, raised, files>>

----------------------------------------------------------------------------
(* Bounds of the model and constants of the program *)

MaxRows == 3

MaxPriceRows == 4

\* 1e-6 of portfolio_engine.py:27, as the denominator of 1/1000000
TolDen == 1000000

\* np.sqrt(252) of portfolio_engine.py:50
PortfolioDays == 252

\* config/settings.py is not among the sources; the specification gives
\* trading_days=252 and a rolling window W
TRADING_DAYS_PER_YEAR == 252

ROLLING_VOL_WINDOW == 2

CORRELATION_METHOD == "pearson"

\* shocks are held in hundredths: -1.0 of stress_engine.py:23, 34 is -100
ShockMin == -100

----------------------------------------------------------------------------
(* Generic helpers *)

Range(s) == {s[i] : i \in 1..Len(s)}

Abs(x) == IF x < 0 THEN -x ELSE x

RECURSIVE GCD(_, _)
GCD(a, b) == IF b = 0 THEN a ELSE GCD(b, a % b)

RECURSIVE SumSeq(_)
SumSeq(s) == IF s = <<>> THEN 0 ELSE s[1] + SumSeq(Tail(s))

\* the sequences of distinct elements of S, of length lo..hi
DistinctSeqs(S, lo, hi) ==
  UNION {{s \in [1..n -> S] : \A i, j \in 1..n : i # j => s[i] # s[j]} : n \in lo..hi}

\* a cell of a table that holds no value
NaN == <<>>

----------------------------------------------------------------------------
(* Inputs *)

\* asset identifiers; "C" is outside every asset universe used below
Keys == {"A", "B", "C"}

Universe == {"A", "B"}

\* column orders of a table over (part of) the universe
ColumnLists == DistinctSeqs(Universe, 1, 2)

\* weights in tenths, and weights in millionths (around the 1e-6 tolerance)
TenthVals == {-2, 0, 3, 5, 6, 7, 10, 12}

MicroVals == {-1, 0, 1, 499999, 500000, 500001, 500002, 1000000, 1000002}

\* the weight dicts handed to the operations that take a table or a vector too:
\* every dict in tenths over the keys A, B, (A,B), (B,A) or (A,C) whose values
\* sum to 1.0 or 1.1
CallWeights ==
  {w \in UNION {{[den |-> 10, keys |-> ks, val |-> v] : v \in [Range(ks) -> TenthVals]} :
                  ks \in ColumnLists \cup {<<"A", "C">>}} :
     SumSeq([i \in 1..Len(w.keys) |-> w.val[w.keys[i]]]) \in {10, 11}}

\* the values a column of a return table takes (in units of the table)
ColVals(c) == IF c = "A" THEN {0, 1} ELSE {-1, 2}

NaNRow(cols) == [c \in Range(cols) |-> NaN]

ValueRows(cols) ==
  {[c \in Range(cols) |-> <<x[c]>>] :
     x \in {y \in [Range(cols) -> {-1, 0, 1, 2}] : \A c \in Range(cols) : y[c] \in ColVals(c)}}

\* return tables: 1..MaxRows rows of values under the columns cols, after the
\* row without values that daily_returns and daily_log_returns put first
\* (returns.py:9, 12) when lead
ReturnTables ==
  UNION {{[cols |-> cols, rows |-> (IF lead THEN <<NaNRow(cols)>> ELSE <<>>) \o r] :
            r \in UNION {[1..n -> ValueRows(cols)] : n \in 1..MaxRows}} :
         cols \in ColumnLists, lead \in BOOLEAN}

\* the prices a column of a price table takes: strictly positive
PriceVals(c) == IF c = "A" THEN {99, 100, 110, 121} ELSE {1, 2}

PriceRows(cols) ==
  {y \in [Range(cols) -> {1, 2, 99, 100, 110, 121}] : \A c \in Range(cols) : y[c] \in PriceVals(c)}

\* price tables of one column and 0..MaxPriceRows rows (a table without rows
\* is empty), and of two columns and one row fewer
PriceTables ==
  UNION {{[cols |-> cols, rows |-> r] :
            r \in UNION {[1..n -> PriceRows(cols)] : n \in 0..(MaxPriceRows + 1 - Len(cols))}} :
         cols \in {<<"A">>, <<"B">>, <<"B", "A">>}}

\* betas in tenths, one per asset of the index
BetaVals == {-5, 0, 10, 15}

BetaSeries ==
  UNION {{[index |-> ix, val |-> b] : b \in [Range(ix) -> BetaVals]} : ix \in ColumnLists}

\* shocks in hundredths, on both sides of -1.0 and of 0
ShockVals == {-150, -101, -100, -40, -20, 0, 1, 50}

\* the return tables handed over together with weights: column A first
WeightedTables == {df \in ReturnTables : df.cols[1] = "A"}

\* dated return tables for calculate_beta: the asset table holds the dates
\* 1..n; column A is 2 or 4 or lacks a value on a date, column B is t on date t
StockCells == {NaN, <<2>>, <<4>>}

StockReturnTables ==
  UNION {{[cols |-> cols, index |-> [t \in 1..n |-> t],
           rows |-> [t \in 1..n |-> [c \in Range(cols) |-> IF c = "A" THEN a[t] ELSE <<t>>]]] :
            a \in [1..n -> StockCells]} :
         cols \in {<<"A">>, <<"A", "B">>}, n \in 1..(MaxRows + 1)}

\* the benchmark table: one column M over the dates 1..MaxRows or
\* 2..MaxRows+1, with at most one date that lacks a value
MarketTables ==
  {[cols |-> <<"M">>, index |-> [t \in 1..MaxRows |-> t + shift],
    rows |-> [t \in 1..MaxRows |-> [c \in {"M"} |-> IF t = gap THEN NaN ELSE <<v[t]>>]]] :
     shift \in {0, 1}, gap \in 0..MaxRows, v \in [1..MaxRows -> {1, 2}]}

\* annual volatilities, one per asset of the index: negative, zero, positive
\* (a square root, as calculate_annual_volatility returns) or NaN
VolVals == {[kind |-> "rat", num |-> -1, den |-> 10], [kind |-> "sqrt", num |-> 0, den |-> 1],
            [kind |-> "sqrt", num |-> 252, den |-> 2], [kind |-> "nan"]}

VolSeries ==
  UNION {{[index |-> ix, val |-> v] : v \in [Range(ix) -> VolVals]} : ix \in ColumnLists}

\* tables too short for any statistic: no row at all, or only the row without
\* values
ShortTables ==
  UNION {{[cols |-> cols, rows |-> <<>>], [cols |-> cols, rows |-> <<NaNRow(cols)>>]} :
         cols \in ColumnLists}

WeightDicts(den, vals) ==
  UNION {{[den |-> den, keys |-> ks, val |-> v] : v \in [Range(ks) -> vals]} :
           ks \in DistinctSeqs(Keys, 1, 2)}

----------------------------------------------------------------------------
(* portfolio_engine.py *)

\* sum(weights.values()), in units of 1/weights.den
TotalWeight(weights) ==
  SumSeq([i \in 1..Len(weights.keys) |-> weights.val[weights.keys[i]]])

\* validate_weights without its check for negative weights
validate_weights_nonegcheck(weights, assets) ==
  IF Range(weights.keys) # Range(assets)
    THEN "Portfolio weights must match asset universe exactly."
  ELSE IF Abs(TotalWeight(weights) - weights.den) > weights.den \div TolDen
    THEN "Portfolio weights must sum to 1."
  ELSE "ok"

\* validate_weights: "ok" when it returns, else the ValueError it raises.
\* abs(total_weight - 1) > 1e-6 is |t - den| / den > 1 / TolDen for the integer
\* t = total_weight * den, i.e. |t - den| > den / TolDen, and an integer exceeds
\* a real exactly when it exceeds its floor.
validate_weights(weights, assets) ==
  IF Range(weights.keys) # Range(assets)
    THEN "Portfolio weights must match asset universe exactly."
  ELSE IF Abs(TotalWeight(weights) - weights.den) > weights.den \div TolDen
    THEN "Portfolio weights must sum to 1."
  ELSE IF \E k \in Range(weights.keys) : weights.val[k] < 0
    THEN "Portfolio weights cannot be negative."
  ELSE "ok"

Raise(msg) == [status |-> "error", error |-> msg]

Return(v) == [status |-> "ok", value |-> v]

----------------------------------------------------------------------------
(* Numbers a function returns *)

NaNv == [kind |-> "nan"]

\* the rational num/den, den > 0
Rat(num, den) == [kind |-> "rat", num |-> num, den |-> den]

\* the non-negative square root of num/den (np.sqrt), NaN for a negative one
Sqrt(num, den) ==
  IF num < 0 THEN NaNv ELSE [kind |-> "sqrt", num |-> num, den |-> den]

\* a correlation num / sqrt(rad), rad > 0
Corr(num, rad) == [kind |-> "corr", num |-> num, rad |-> rad]

\* (num/den) / r for a square root r (numpy float division): NaN for NaN or
\* 0/0, an infinity for x/0
DivBySqrt(num, den, r) ==
  IF r.kind = "nan" THEN NaNv
  ELSE IF r.num = 0 THEN (IF num = 0 THEN NaNv ELSE [kind |-> "inf", neg |-> num < 0])
  ELSE [kind |-> "ratio", num |-> num, den |-> den, over |-> r]

----------------------------------------------------------------------------
(* pandas operations on a table whose rows hold a value in every column or in
   none *)

\* the rows that hold values
ValuedRows(df) == SelectSeq(df.rows, LAMBDA row : \A c \in Range(df.cols) : row[c] # NaN)

ColSum(rows, c) == SumSeq([t \in 1..Len(rows) |-> rows[t][c][1]])

CrossSum(rows, c, d) == SumSeq([t \in 1..Len(rows) |-> rows[t][c][1] * rows[t][d][1]])

\* DataFrame.cov(): the sample covariance of columns c and d over the n rows
\* with values is CoMoment / (n * (n - 1)); no value with fewer than 2 rows
CoMoment(df, c, d) ==
  LET rows == ValuedRows(df)
  IN  Len(rows) * CrossSum(rows, c, d) - ColSum(rows, c) * ColSum(rows, d)

CovDen(df) == Len(ValuedRows(df)) * (Len(ValuedRows(df)) - 1)

CovIsNaN(df) == Len(ValuedRows(df)) < 2

\* pd.Series(weights): the values in the insertion order of the dict
WeightArray(weights) == [p \in 1..Len(weights.keys) |-> weights.val[weights.keys[p]]]

\* np.dot(cov_matrix, weights_matrix): numpy multiplies by position, row p of
\* the matrix being column p of the table and entry q of the vector being the
\* q-th weight of the dict
DotCovWeights(df, weights) ==
  [p \in 1..Len(df.cols) |->
     SumSeq([q \in 1..Len(df.cols) |->
               CoMoment(df, df.cols[p], df.cols[q]) * WeightArray(weights)[q]])]

\* w' * Sigma * w with the weight of every asset on that asset's row and column
AlignedQuadForm(df, weights) ==
  SumSeq([p \in 1..Len(df.cols) |->
    SumSeq([q \in 1..Len(df.cols) |->
      weights.val[df.cols[p]] * CoMoment(df, df.cols[p], df.cols[q]) * weights.val[df.cols[q]]])])

\* np.dot(weights_matrix.T, np.dot(cov_matrix, weights_matrix))
QuadForm(df, weights) ==
  SumSeq([p \in 1..Len(df.cols) |->
            WeightArray(weights)[p] * DotCovWeights(df, weights)[p]])

----------------------------------------------------------------------------
(* portfolio_engine.py, the operations on weights *)

\* (asset_returns * weights).sum(axis=1): the dict is aligned with the columns
\* by label and sum skips the cells without value; per row a number over den
calculate_portfolio_returns(asset_returns, weights) ==
  LET v == validate_weights(weights, asset_returns.cols)
  IN  IF v # "ok" THEN Raise(v)
      ELSE Return([t \in 1..Len(asset_returns.rows) |->
             Rat(SumSeq([p \in 1..Len(asset_returns.cols) |->
                   LET c == asset_returns.cols[p]
                   IN  IF asset_returns.rows[t][c] = NaN THEN 0
                       ELSE asset_returns.rows[t][c][1] * weights.val[c]]),
                 weights.den)])

calculate_daily_portfolio_volatility(log_returns, weights) ==
  LET v == validate_weights(weights, log_returns.cols)
  IN  IF v # "ok" THEN Raise(v)
      ELSE IF CovIsNaN(log_returns) THEN Return(NaNv)
      ELSE Return(Sqrt(QuadForm(log_returns, weights),
                       CovDen(log_returns) * weights.den * weights.den))

\* calculate_asset_risk_contribution returning MRC itself
calculate_asset_risk_contribution_mrc(weights, log_returns, portfolio_vol) ==
  LET v == validate_weights(weights, log_returns.cols)
  IN  IF v # "ok" THEN Raise(v)
      ELSE IF CovIsNaN(log_returns)
        THEN Return([k \in Range(weights.keys) |-> NaNv])
      ELSE Return([k \in Range(weights.keys) |->
             LET p == CHOOSE q \in 1..Len(weights.keys) : weights.keys[q] = k
             IN  DivBySqrt(weights.den * DotCovWeights(log_returns, weights)[p],
                           CovDen(log_returns) * weights.den * weights.den,
                           portfolio_vol)])

\* MRC = np.dot(cov_matrix, pd.Series(weights)) / portfolio_vol is an array, so
\* pd.Series(weights) * MRC multiplies by position: the entry of the p-th key of
\* the dict is its weight times MRC[p]
calculate_asset_risk_contribution(weights, log_returns, portfolio_vol) ==
  LET v == validate_weights(weights, log_returns.cols)
  IN  IF v # "ok" THEN Raise(v)
      ELSE IF CovIsNaN(log_returns)
        THEN Return([k \in Range(weights.keys) |-> NaNv])
      ELSE Return([k \in Range(weights.keys) |->
             LET p == CHOOSE q \in 1..Len(weights.keys) : weights.keys[q] = k
             IN  DivBySqrt(WeightArray(weights)[p] * DotCovWeights(log_returns, weights)[p],
                           CovDen(log_returns) * weights.den * weights.den,
                           portfolio_vol)])

calculate_annual_portfolio_volatility(portfolio_vol) ==
  IF portfolio_vol.kind = "nan" THEN NaNv
  ELSE Sqrt(portfolio_vol.num * PortfolioDays, portfolio_vol.den)

\* calculate_diversification_benefit.  asset_vols is a Series [index, val] of
\* square roots; asset_vols * pd.Series(weights) is aligned by label and sum
\* skips NaN.  The value is held as written: the terms (w_k / den) * vol_k of
\* naive_vol, minus portfolio_vol.
calculate_diversification_benefit(asset_vols, weights, portfolio_vol) ==
  LET v == validate_weights(weights, asset_vols.index)
  IN  IF v # "ok" THEN Raise(v)
      ELSE IF Len(weights.keys) = 1 THEN Return(Rat(0, 1))
      ELSE IF portfolio_vol.kind = "nan" THEN Return(NaNv)
      ELSE Return([kind |-> "diff",
                   terms |-> [p \in 1..Len(asset_vols.index) |->
                                LET k == asset_vols.index[p]
                                IN  [w |-> weights.val[k], den |-> weights.den,
                                     vol |-> asset_vols.val[k]]],
                   minus |-> portfolio_vol])

----------------------------------------------------------------------------
(* volatility.py *)

\* calculate_daily_volatility refusing a table of exactly ROLLING_VOL_WINDOW
\* rows too
calculate_daily_volatility_leq(log_returns_df) ==
  IF Len(log_returns_df.rows) <= ROLLING_VOL_WINDOW
    THEN Raise("Not enough data for rolling volatility.")
  ELSE Return([index |-> log_returns_df.cols,
               val |-> [c \in Range(log_returns_df.cols) |->
                          IF CovIsNaN(log_returns_df) THEN NaNv
                          ELSE Sqrt(CoMoment(log_returns_df, c, c), CovDen(log_returns_df))]])

\* DataFrame.std(): per column the sample standard deviation over the rows
\* with values, sqrt(CoMoment / (n * (n - 1))), NaN with fewer than 2 rows
calculate_daily_volatility(log_returns_df) ==
  IF Len(log_returns_df.rows) < ROLLING_VOL_WINDOW
    THEN Raise("Not enough data for rolling volatility.")
  ELSE Return([index |-> log_returns_df.cols,
               val |-> [c \in Range(log_returns_df.cols) |->
                          IF CovIsNaN(log_returns_df) THEN NaNv
                          ELSE Sqrt(CoMoment(log_returns_df, c, c), CovDen(log_returns_df))]])

calculate_annual_volatility(daily_vol) ==
  [index |-> daily_vol.index,
   val |-> [c \in Range(daily_vol.index) |->
              IF daily_vol.val[c].kind = "nan" THEN NaNv
              ELSE Sqrt(daily_vol.val[c].num * TRADING_DAYS_PER_YEAR, daily_vol.val[c].den)]]

----------------------------------------------------------------------------
(* stress_engine.py.  Betas are in tenths and shocks in hundredths, so a
   stressed return is in thousandths. *)

\* calculate_stressed_assets_returns rejecting the shock -1.0 itself
calculate_stressed_assets_returns_strict(betas, shock_amt) ==
  IF ~(ShockMin < shock_amt /\ shock_amt <= 0)
    THEN Raise("Shock must be between -100% and 0%.")
  ELSE Return([index |-> betas.index,
               val |-> [k \in Range(betas.index) |-> betas.val[k] * shock_amt]])

calculate_stressed_assets_returns(betas, shock_amt) ==
  IF ~(ShockMin <= shock_amt /\ shock_amt <= 0)
    THEN Raise("Shock must be between -100% and 0%.")
  ELSE Return([index |-> betas.index,
               val |-> [k \in Range(betas.index) |-> betas.val[k] * shock_amt]])

\* (pd.Series(weights) * asset_stress_returns).sum(): the product is aligned by
\* label, has no value for a label only one side has, and sum skips those
calculate_portfolio_loss(weights, asset_stress_returns) ==
  Return(Rat(SumSeq([p \in 1..Len(weights.keys) |->
                      IF weights.keys[p] \in Range(asset_stress_returns.index)
                        THEN weights.val[weights.keys[p]] *
                             asset_stress_returns.val[weights.keys[p]]
                        ELSE 0]),
             weights.den * 1000))

\* zero_ret_series with every return set to stress_amt
ShockedReturns_all(portfolio_weights, asset, stress_amt) ==
  [j \in Range(portfolio_weights.keys) |-> stress_amt]

\* zero_ret_series after line 41: 0.0 for every asset, stress_amt for asset
ShockedReturns(portfolio_weights, asset, stress_amt) ==
  [j \in Range(portfolio_weights.keys) |-> IF j = asset THEN stress_amt ELSE 0]

calculate_concentration_stress_loss(weights, stress_amt) ==
  IF ~(ShockMin <= stress_amt /\ stress_amt <= 0)
    THEN Raise("Shock must be between -100% and 0%.")
  ELSE Return([asset \in Range(weights.keys) |->
         Rat(SumSeq([p \in 1..Len(weights.keys) |->
               weights.val[weights.keys[p]] *
               ShockedReturns(weights, asset, stress_amt)[weights.keys[p]]]),
             weights.den * 100)])

\* (corr_matrix * 1.5).clip(-1, 1), one entry: 1.5 * num / sqrt(rad) is
\* 3 * num / sqrt(4 * rad), and beyond +-1 when 9 * num^2 > 4 * rad
stressed_corr_entry(x) ==
  IF x.kind = "nan" THEN NaNv
  ELSE IF 9 * x.num * x.num >= 4 * x.rad
    THEN (IF x.num > 0 THEN Corr(1, 1) ELSE Corr(-1, 1))
  ELSE Corr(3 * x.num, 4 * x.rad)

\* calculate_correlation_breakdown_volatility.  np.diag(asset_vols),
\* corr_matrix.values and pd.Series(weights) are multiplied by position, and
\* np.dot raises when the number of weights is not the size of the matrix.  The
\* value is the square root of the sum over p, q of
\* w[p] * vol[p] * corr[p][q] * vol[q] * w[q] / den^2, held as these factors.
calculate_correlation_breakdown_volatility(corr_matrix, asset_vols, weights) ==
  LET n == Len(corr_matrix.cols)
      stressed_corr_matrix ==
        [p \in 1..n |-> [q \in 1..n |->
           stressed_corr_entry(corr_matrix.val[corr_matrix.cols[p]][corr_matrix.cols[q]])]]
      D == [p \in 1..Len(asset_vols.index) |-> asset_vols.val[asset_vols.index[p]]]
  IN  IF Len(D) # n \/ Len(weights.keys) # n
        THEN Raise("shapes not aligned")
      ELSE IF \/ \E p \in 1..n : D[p].kind = "nan"
              \/ \E p, q \in 1..n : stressed_corr_matrix[p][q].kind = "nan"
        THEN Return(NaNv)
      ELSE Return([kind |-> "sqrtquad", w |-> WeightArray(weights), den |-> weights.den,
                   vol |-> D, corr |-> stressed_corr_matrix])

----------------------------------------------------------------------------
(* returns.py *)

\* pct_change dividing by the price of the same day
pct_change_sameday(prices_df) ==
  [cols |-> prices_df.cols,
   rows |-> [t \in 1..Len(prices_df.rows) |->
               [c \in Range(prices_df.cols) |->
                  IF t = 1 THEN NaNv
                  ELSE Rat(prices_df.rows[t][c] - prices_df.rows[t - 1][c],
                           prices_df.rows[t][c])]]]

\* DataFrame.pct_change(): a table of the same shape; the first row has no
\* value, a later cell is P_t / P_{t-1} - 1 = (P_t - P_{t-1}) / P_{t-1}
pct_change(prices_df) ==
  [cols |-> prices_df.cols,
   rows |-> [t \in 1..Len(prices_df.rows) |->
               [c \in Range(prices_df.cols) |->
                  IF t = 1 THEN NaNv
                  ELSE Rat(prices_df.rows[t][c] - prices_df.rows[t - 1][c],
                           prices_df.rows[t - 1][c])]]]

daily_returns(prices_df) ==
  IF Len(prices_df.rows) = 0 THEN Raise("Price data is empty after cleaning.")
  ELSE Return(pct_change(prices_df))

\* np.log(prices_df).diff(), for strictly positive prices: a table of the same
\* shape; the first row has no value, a later cell is
\* log(P_t) - log(P_{t-1}) = log(P_t / P_{t-1}), held by P_t and P_{t-1}
daily_log_returns(prices_df) ==
  [cols |-> prices_df.cols,
   rows |-> [t \in 1..Len(prices_df.rows) |->
               [c \in Range(prices_df.cols) |->
                  IF t = 1 THEN NaNv
                  ELSE [kind |-> "log", num |-> prices_df.rows[t][c],
                        den |-> prices_df.rows[t - 1][c]]]]]

----------------------------------------------------------------------------
(* drawdown.py *)

Max(a, b) == IF a >= b THEN a ELSE b

RECURSIVE MaxUpTo(_, _, _)
MaxUpTo(rows, c, t) ==
  IF t = 1 THEN rows[1][c] ELSE Max(MaxUpTo(rows, c, t - 1), rows[t][c])

\* the maximum of the whole column at every row
cummax_whole(df) ==
  [t \in 1..Len(df.rows) |-> [c \in Range(df.cols) |-> MaxUpTo(df.rows, c, Len(df.rows))]]

\* DataFrame.cummax(): per column the maximum of the rows up to and including t
cummax(df) ==
  [t \in 1..Len(df.rows) |-> [c \in Range(df.cols) |-> MaxUpTo(df.rows, c, t)]]

\* the smaller of two quotients with positive denominators
RatMin(x, y) == IF x.num * y.den <= y.num * x.den THEN x ELSE y

RECURSIVE ColMin(_, _, _)
ColMin(rows, c, t) ==
  IF t = 1 THEN rows[1][c] ELSE RatMin(ColMin(rows, c, t - 1), rows[t][c])

\* calculate_drawdown on a table with at least one row: the drawdown table
\* and, per column, drawdown.min()
calculate_drawdown(cleaned_prices) ==
  LET running_max == cummax(cleaned_prices)
      drawdown == [t \in 1..Len(cleaned_prices.rows) |->
                     [c \in Range(cleaned_prices.cols) |->
                        Rat(cleaned_prices.rows[t][c] - running_max[t][c],
                            running_max[t][c])]]
  IN  Return([drawdown |-> drawdown,
              max_drawdown |-> [c \in Range(cleaned_prices.cols) |->
                                  ColMin(drawdown, c, Len(drawdown))]])

----------------------------------------------------------------------------
(* correlations.py *)

\* the entry of columns c, d dividing by the variance of c alone
corr_entry_ownvar(df, c, d) ==
  IF CovIsNaN(df) \/ CoMoment(df, c, c) * CoMoment(df, d, d) = 0 THEN NaNv
  ELSE Corr(CoMoment(df, c, d), CoMoment(df, c, c) * CoMoment(df, c, c))

\* DataFrame.corr(method="pearson"), entry of columns c, d:
\* cov(c, d) / sqrt(var(c) * var(d)); no value when fewer than 2 rows hold
\* values or when the divisor is 0, i.e. when c or d is constant
corr_entry(df, c, d) ==
  IF CovIsNaN(df) \/ CoMoment(df, c, c) * CoMoment(df, d, d) = 0 THEN NaNv
  ELSE Corr(CoMoment(df, c, d), CoMoment(df, c, c) * CoMoment(df, d, d))

\* calculate_correlation_matrix without its check for a single column
calculate_correlation_matrix_nocheck(returns_df) ==
  Return([cols |-> returns_df.cols,
          val |-> [c \in Range(returns_df.cols) |->
                     [d \in Range(returns_df.cols) |-> corr_entry(returns_df, c, d)]]])

\* returns_df.shape[1] is the number of columns
calculate_correlation_matrix(returns_df) ==
  IF Len(returns_df.cols) = 1
    THEN Raise("Correlation matrix undefined for single-asset portfolio.")
  ELSE IF CORRELATION_METHOD = "pearson"
    THEN Return([cols |-> returns_df.cols,
                 val |-> [c \in Range(returns_df.cols) |->
                            [d \in Range(returns_df.cols) |-> corr_entry(returns_df, c, d)]]])
  ELSE Raise("method")

----------------------------------------------------------------------------
(* beta.py *)

\* the row of the dated table df at date d
RowAt(df, d) == df.rows[CHOOSE t \in 1..Len(df.index) : df.index[t] = d]

\* pd.concat([a, b], axis=1, join="inner"): the columns of a followed by those
\* of b, over the dates that both tables hold
concat_inner(a, b) ==
  LET common == SelectSeq(a.index, LAMBDA d : d \in Range(b.index))
  IN  [cols |-> a.cols \o b.cols,
       index |-> common,
       rows |-> [t \in 1..Len(common) |->
                   [c \in Range(a.cols) \cup Range(b.cols) |->
                      IF c \in Range(a.cols) THEN RowAt(a, common[t])[c]
                      ELSE RowAt(b, common[t])[c]]]]

\* DataFrame.dropna(): the rows that hold a value in every column
dropna(df) ==
  LET kept == SelectSeq([t \in 1..Len(df.rows) |-> t],
                        LAMBDA t : \A c \in Range(df.cols) : df.rows[t][c] # NaN)
  IN  [cols |-> df.cols,
       index |-> [i \in 1..Len(kept) |-> df.index[kept[i]]],
       rows |-> [i \in 1..Len(kept) |-> df.rows[kept[i]]]]

\* x / y for the floats x = xnum/den and y = ynum/den, den > 0: NaN for 0/0, an
\* infinity for x/0
FloatDiv(xnum, ynum) ==
  IF ynum = 0 THEN (IF xnum = 0 THEN NaNv ELSE [kind |-> "inf", neg |-> xnum < 0])
  ELSE IF ynum < 0 THEN Rat(-xnum, -ynum)
  ELSE Rat(xnum, ynum)

\* calculate_beta dividing by the variance of the asset
calculate_beta_assetvar(stock_returns, market_returns) ==
  LET aligned == dropna(concat_inner(stock_returns, market_returns))
      assets == SubSeq(aligned.cols, 1, Len(aligned.cols) - 1)
      market == aligned.cols[Len(aligned.cols)]
  IN  Return([index |-> assets,
              val |-> [col \in Range(assets) |->
                         IF Len(aligned.rows) < 2 THEN NaNv
                         ELSE FloatDiv(CoMoment(aligned, col, market),
                                       CoMoment(aligned, col, col))]])

\* calculate_beta.  assets is every column but the last, market the last one;
\* Series.cov and Series.var have no value over fewer than 2 rows, and are
\* CoMoment / (n * (n - 1)) otherwise, so their quotient is that of the
\* co-moments
calculate_beta(stock_returns, market_returns) ==
  LET aligned == dropna(concat_inner(stock_returns, market_returns))
      assets == SubSeq(aligned.cols, 1, Len(aligned.cols) - 1)
      market == aligned.cols[Len(aligned.cols)]
  IN  Return([index |-> assets,
              val |-> [col \in Range(assets) |->
                         IF Len(aligned.rows) < 2 THEN NaNv
                         ELSE FloatDiv(CoMoment(aligned, col, market),
                                       CoMoment(aligned, market, market))]])

----------------------------------------------------------------------------
(* sharpe.py *)

\* x <= 0 for a number x; a comparison with NaN is False
LeqZero(x) == x.kind # "nan" /\ x.num <= 0

\* DataFrame.mean() of column c times TRADING_DAYS_PER_YEAR, divided by vol:
\* the mean is over the cells with a value and is NaN when there is none
sharpe_entry(normal_returns, c, vol) ==
  LET cells == SelectSeq([t \in 1..Len(normal_returns.rows) |-> normal_returns.rows[t][c]],
                         LAMBDA x : x # NaN)
  IN  IF cells = <<>> \/ vol.kind = "nan" THEN NaNv
      ELSE [kind |-> "ratio",
            num |-> SumSeq([i \in 1..Len(cells) |-> cells[i][1]]) * TRADING_DAYS_PER_YEAR,
            den |-> Len(cells),
            over |-> vol]

\* calculate_sharpe raising only for a negative volatility
calculate_sharpe_negonly(normal_returns, annual_vol) ==
  IF \E k \in Range(annual_vol.index) :
       annual_vol.val[k].kind # "nan" /\ annual_vol.val[k].num < 0
    THEN Raise("Sharpe ratio undefined when volatility is zero or negative.")
  ELSE Return([k \in Range(normal_returns.cols) \cup Range(annual_vol.index) |->
                 IF k \in Range(normal_returns.cols) /\ k \in Range(annual_vol.index)
                   THEN sharpe_entry(normal_returns, k, annual_vol.val[k])
                 ELSE NaNv])

\* calculate_sharpe(daily_returns, annual_vol), the table named as main.py:112
\* names it.  The division of the Series of means by annual_vol is
\* aligned by label: the result has an entry for every label of either, NaN
\* for a label that only one of them has.
calculate_sharpe(normal_returns, annual_vol) ==
  IF \E k \in Range(annual_vol.index) : LeqZero(annual_vol.val[k])
    THEN Raise("Sharpe ratio undefined when volatility is zero or negative.")
  ELSE Return([k \in Range(normal_returns.cols) \cup Range(annual_vol.index) |->
                 IF k \in Range(normal_returns.cols) /\ k \in Range(annual_vol.index)
                   THEN sharpe_entry(normal_returns, k, annual_vol.val[k])
                 ELSE NaNv])

\* calculate_rolling_volatility giving a value wherever the table has
\* ROLLING_VOL_WINDOW rows up to the date, with or without values
calculate_rolling_volatility_anyrows(log_returns_df) ==
  Return([cols |-> log_returns_df.cols,
          rows |-> [t \in 1..Len(log_returns_df.rows) |->
                      [c \in Range(log_returns_df.cols) |->
                         IF t - ROLLING_VOL_WINDOW + 1 < 1 \/ ROLLING_VOL_WINDOW < 2 THEN NaNv
                         ELSE [kind |-> "std",
                               of |-> [i \in 1..ROLLING_VOL_WINDOW |->
                                         log_returns_df.rows[t - ROLLING_VOL_WINDOW + i][c]]]]]])

\* log_returns_df.rolling(ROLLING_VOL_WINDOW).std(): a table of the same shape.
\* min_periods is the window, so the cell of date t has a value only when the
\* rows t-W+1..t exist and all hold a value (and W >= 2, the sample deviation
\* of one observation being NaN); the value is the sample standard deviation
\* of these W observations, held as the observations themselves
calculate_rolling_volatility(log_returns_df) ==
  Return([cols |-> log_returns_df.cols,
          rows |-> [t \in 1..Len(log_returns_df.rows) |->
                      [c \in Range(log_returns_df.cols) |->
                         IF \/ t - ROLLING_VOL_WINDOW + 1 < 1
                            \/ ROLLING_VOL_WINDOW < 2
                            \/ \E u \in (t - ROLLING_VOL_WINDOW + 1)..t :
                                 log_returns_df.rows[u][c] = NaNv
                           THEN NaNv
                         ELSE [kind |-> "std",
                               of |-> [i \in 1..ROLLING_VOL_WINDOW |->
                                         log_returns_df.rows[t - ROLLING_VOL_WINDOW + i][c]]]]]])

----------------------------------------------------------------------------
(* The caller *)

\* no table, and no weight dict
NoTable == [cols |-> <<>>, rows |-> <<>>]

NoWeights == [den |-> 1, keys |-> <<>>, val |-> <<>>]

\* no error has been raised
NoError == [stage |-> "none", error |-> "none"]

Init ==
  /\ pc = "ready"
  /\ op = "none"
  /\ args = <<>>
  /\ ret = <<>>
  /\ stage = "configuration"
  /\ PORTFOLIO_WEIGHTS = NoWeights
  /\ cleaned_data = NoTable
  /\ benchmark_clean = NoTable
  /\ executed = <<>>
  /\ raised = NoError
  /\ files = {}

CallValidateWeights ==
  /\ pc = "ready"
  /\ \E den \in {10, 1000000}, assets \in ColumnLists :
       \E weights \in WeightDicts(den, IF den = 10 THEN TenthVals ELSE MicroVals) :
         /\ op' = "validate_weights"
         /\ args' = [weights |-> weights, assets |-> assets]
         /\ ret' = LET r == validate_weights(weights, assets)
                   IN  IF r = "ok" THEN Return(<<>>) ELSE Raise(r)
  /\ pc' = "returned"
  /\ UNCHANGED mainvars

CallPortfolioReturns ==
  /\ pc = "ready"
  /\ \E asset_returns \in WeightedTables, weights \in CallWeights :
       /\ op' = "calculate_portfolio_returns"
       /\ args' = [asset_returns |-> asset_returns, weights |-> weights]
       /\ ret' = calculate_portfolio_returns(asset_returns, weights)
  /\ pc' = "returned"
  /\ UNCHANGED mainvars

CallDailyPortfolioVolatility ==
  /\ pc = "ready"
  /\ \E log_returns \in WeightedTables, weights \in CallWeights :
       /\ op' = "calculate_daily_portfolio_volatility"
       /\ args' = [log_returns |-> log_returns, weights |-> weights]
       /\ ret' = calculate_daily_portfolio_volatility(log_returns, weights)
  /\ pc' = "returned"
  /\ UNCHANGED mainvars

\* main.py:120-129: portfolio_vol is what calculate_daily_portfolio_volatility
\* returned for the same weights and log returns (no number when it raised)
CallAssetRiskContribution ==
  /\ pc = "ready"
  /\ \E log_returns \in WeightedTables, weights \in CallWeights :
       LET vol == calculate_daily_portfolio_volatility(log_returns, weights)
           portfolio_vol == IF vol.status = "ok" THEN vol.value ELSE NaNv
       IN  /\ op' = "calculate_asset_risk_contribution"
           /\ args' = [weights |-> weights, log_returns |-> log_returns,
                       portfolio_vol |-> portfolio_vol]
           /\ ret' = calculate_asset_risk_contribution(weights, log_returns, portfolio_vol)
  /\ pc' = "returned"
  /\ UNCHANGED mainvars

\* main.py:86-87, 120-125: asset_vols is the annual volatility of the log
\* returns and portfolio_vol the annual portfolio volatility for the same log
\* returns and weights (no number when calculate_daily_portfolio_volatility
\* raised)
CallDiversificationBenefit ==
  /\ pc = "ready"
  /\ \E log_returns \in WeightedTables, weights \in CallWeights :
       LET daily == calculate_daily_volatility(log_returns)
           vol == calculate_daily_portfolio_volatility(log_returns, weights)
           portfolio_vol == IF vol.status = "ok"
                              THEN calculate_annual_portfolio_volatility(vol.value)
                              ELSE NaNv
       IN  /\ daily.status = "ok"
           /\ op' = "calculate_diversification_benefit"
           /\ args' = [asset_vols |-> calculate_annual_volatility(daily.value),
                       weights |-> weights, portfolio_vol |-> portfolio_vol]
           /\ ret' = calculate_diversification_benefit(
                       calculate_annual_volatility(daily.value), weights, portfolio_vol)
  /\ pc' = "returned"
  /\ UNCHANGED mainvars

CallStressedAssetsReturns ==
  /\ pc = "ready"
  /\ \E betas \in BetaSeries, shock_amt \in ShockVals :
       /\ op' = "calculate_stressed_assets_returns"
       /\ args' = [betas |-> betas, shock_amt |-> shock_amt]
       /\ ret' = calculate_stressed_assets_returns(betas, shock_amt)
  /\ pc' = "returned"
  /\ UNCHANGED mainvars

\* main.py:140-141: asset_stress_returns is what
\* calculate_stressed_assets_returns returned for an accepted shock
CallPortfolioLoss ==
  /\ pc = "ready"
  /\ \E betas \in BetaSeries, shock_amt \in ShockVals, weights \in CallWeights :
       LET stressed == calculate_stressed_assets_returns(betas, shock_amt)
       IN  /\ stressed.status = "ok"
           /\ op' = "calculate_portfolio_loss"
           /\ args' = [weights |-> weights, asset_stress_returns |-> stressed.value]
           /\ ret' = calculate_portfolio_loss(weights, stressed.value)
  /\ pc' = "returned"
  /\ UNCHANGED mainvars

CallConcentrationStressLoss ==
  /\ pc = "ready"
  /\ \E weights \in CallWeights, stress_amt \in ShockVals :
       /\ op' = "calculate_concentration_stress_loss"
       /\ args' = [weights |-> weights, stress_amt |-> stress_amt]
       /\ ret' = calculate_concentration_stress_loss(weights, stress_amt)
  /\ pc' = "returned"
  /\ UNCHANGED mainvars

CallDailyReturns ==
  /\ pc = "ready"
  /\ \E prices_df \in PriceTables :
       /\ op' = "daily_returns"
       /\ args' = [prices_df |-> prices_df]
       /\ ret' = daily_returns(prices_df)
  /\ pc' = "returned"
  /\ UNCHANGED mainvars

CallDrawdown ==
  /\ pc = "ready"
  /\ \E cleaned_prices \in PriceTables :
       /\ Len(cleaned_prices.rows) >= 1
       /\ op' = "calculate_drawdown"
       /\ args' = [cleaned_prices |-> cleaned_prices]
       /\ ret' = calculate_drawdown(cleaned_prices)
  /\ pc' = "returned"
  /\ UNCHANGED mainvars

CallCorrelationMatrix ==
  /\ pc = "ready"
  /\ \E returns_df \in ReturnTables :
       /\ op' = "calculate_correlation_matrix"
       /\ args' = [returns_df |-> returns_df]
       /\ ret' = calculate_correlation_matrix(returns_df)
  /\ pc' = "returned"
  /\ UNCHANGED mainvars

\* main.py:86, 96, 148-150: corr_matrix is what calculate_correlation_matrix
\* returned and asset_vols what calculate_daily_volatility returned, here for
\* one and the same table of returns
CallCorrelationBreakdownVolatility ==
  /\ pc = "ready"
  /\ \E returns_df \in WeightedTables, weights \in CallWeights :
       LET corr == calculate_correlation_matrix(returns_df)
           daily == calculate_daily_volatility(returns_df)
       IN  /\ corr.status = "ok"
           /\ daily.status = "ok"
           /\ op' = "calculate_correlation_breakdown_volatility"
           /\ args' = [corr_matrix |-> corr.value, asset_vols |-> daily.value,
                       weights |-> weights]
           /\ ret' = calculate_correlation_breakdown_volatility(
                       corr.value, daily.value, weights)
  /\ pc' = "returned"
  /\ UNCHANGED mainvars

CallBeta ==
  /\ pc = "ready"
  /\ \E stock_returns \in StockReturnTables, market_returns \in MarketTables :
       /\ op' = "calculate_beta"
       /\ args' = [stock_returns |-> stock_returns, market_returns |-> market_returns]
       /\ ret' = calculate_beta(stock_returns, market_returns)
  /\ pc' = "returned"
  /\ UNCHANGED mainvars

CallSharpe ==
  /\ pc = "ready"
  /\ \E normal_returns \in ReturnTables, annual_vol \in VolSeries :
       /\ op' = "calculate_sharpe"
       /\ args' = [daily_returns |-> normal_returns, annual_vol |-> annual_vol]
       /\ ret' = calculate_sharpe(normal_returns, annual_vol)
  /\ pc' = "returned"
  /\ UNCHANGED mainvars

CallDailyVolatility ==
  /\ pc = "ready"
  /\ \E log_returns_df \in ReturnTables \cup ShortTables :
       /\ op' = "calculate_daily_volatility"
       /\ args' = [log_returns_df |-> log_returns_df]
       /\ ret' = calculate_daily_volatility(log_returns_df)
  /\ pc' = "returned"
  /\ UNCHANGED mainvars

CallDailyLogReturns ==
  /\ pc = "ready"
  /\ \E prices_df \in PriceTables :
       /\ op' = "daily_log_returns"
       /\ args' = [prices_df |-> prices_df]
       /\ ret' = Return(daily_log_returns(prices_df))
  /\ pc' = "returned"
  /\ UNCHANGED mainvars

\* main.py:83, 89: log_returns_df is what daily_log_returns returned for the
\* cleaned prices prices_df
CallRollingVolatility ==
  /\ pc = "ready"
  /\ \E prices_df \in PriceTables :
       /\ op' = "calculate_rolling_volatility"
       /\ args' = [log_returns_df |-> daily_log_returns(prices_df)]
       /\ ret' = calculate_rolling_volatility(daily_log_returns(prices_df))
  /\ pc' = "returned"
  /\ UNCHANGED mainvars

\* the caller takes the result; the library keeps nothing of the call
Done ==
  /\ pc = "returned"
  /\ pc' = "ready"
  /\ op' = "none"
  /\ args' = <<>>
  /\ ret' = <<>>
  /\ UNCHANGED mainvars

Next ==
  \/ CallValidateWeights
  \/ CallPortfolioReturns
  \/ CallDailyPortfolioVolatility
  \/ CallAssetRiskContribution
  \/ CallDiversificationBenefit
  \/ CallStressedAssetsReturns
  \/ CallPortfolioLoss
  \/ CallConcentrationStressLoss
  \/ CallDailyReturns
  \/ CallDrawdown
  \/ CallCorrelationMatrix
  \/ CallCorrelationBreakdownVolatility
  \/ CallBeta
  \/ CallSharpe
  \/ CallDailyVolatility
  \/ CallDailyLogReturns
  \/ CallRollingVolatility
  \/ Done

Spec == Init /\ [][Next]_vars

----------------------------------------------------------------------------
(* C1 *)

\* the three weight vectors the specification names, in tenths
SumExample == [den |-> 10, keys |-> <<"A", "B">>, val |-> [A |-> 5, B |-> 6]]

NegativeExample == [den |-> 10, keys |-> <<"A", "B">>, val |-> [A |-> -2, B |-> 12]]

MismatchExample == [den |-> 10, keys |-> <<"A", "C">>, val |-> [A |-> 10, C |-> 10]]

\* the weights are the keys of the universe, sum to 1 within 1e-6, none negative
WeightsInvalid(weights, assets) ==
  \/ \E k \in Keys : (k \in Range(weights.keys)) # (k \in Range(assets))
  \/ TotalWeight(weights) < weights.den - weights.den \div TolDen
  \/ TotalWeight(weights) > weights.den + weights.den \div TolDen
  \/ \E i \in 1..Len(weights.keys) : weights.val[weights.keys[i]] < 0

\* C1: validate_weights raises exactly when the keys differ from the asset
\* universe, or the weights sum to something further than 1e-6 from 1, or a
\* weight is negative, and returns for every other weight vector; it raises for
\* {A:0.5,B:0.6}, {A:-0.2,B:1.2} and {A:1.0,C:1.0} against the universe {A,B}.
C1_ValidateWeights ==
  op = "validate_weights" =>
    /\ (ret.status = "error") = WeightsInvalid(args.weights, args.assets)
    /\ ret.status \in {"ok", "error"}
    /\ (/\ args.weights \in {SumExample, NegativeExample, MismatchExample}
        /\ Range(args.assets) = {"A", "B"}) => ret.status = "error"

\* the negative example, whose weights do sum to 1, was rejected
C1_Witness ==
  /\ op = "validate_weights"
  /\ args.weights = NegativeExample
  /\ args.assets = <<"A", "B">>
  /\ ret.status = "error"

----------------------------------------------------------------------------
(* C2 *)

\* the asset universe the weights of the call in progress belong to: the
\* columns or index of the table, vector or matrix handed over with them (the
\* dict's own keys where only the weights are handed over)
UniverseOfCall ==
  CASE op = "calculate_portfolio_returns" -> args.asset_returns.cols
    [] op = "calculate_daily_portfolio_volatility" -> args.log_returns.cols
    [] op = "calculate_diversification_benefit" -> args.asset_vols.index
    [] op = "calculate_asset_risk_contribution" -> args.log_returns.cols
    [] op = "calculate_portfolio_loss" -> args.asset_stress_returns.index
    [] op = "calculate_concentration_stress_loss" -> args.weights.keys
    [] op = "calculate_correlation_breakdown_volatility" -> args.corr_matrix.cols
    [] OTHER -> <<>>

WeightOps ==
  {"calculate_portfolio_returns", "calculate_daily_portfolio_volatility",
   "calculate_diversification_benefit", "calculate_asset_risk_contribution",
   "calculate_portfolio_loss", "calculate_concentration_stress_loss",
   "calculate_correlation_breakdown_volatility"}

\* C2: every operation that takes a weight vector checks it with
\* validate_weights before any arithmetic on the weights: called with weights
\* that validate_weights rejects it raises and returns no number.
C2_ValidatedBeforeUse ==
  (op \in WeightOps /\ validate_weights(args.weights, UniverseOfCall) # "ok") =>
    ret.status = "error"

\* the part of C2 that the portfolio engine keeps: its four operations raise
\* what validate_weights raises
C2_PortfolioEngineValidates ==
  (/\ op \in {"calculate_portfolio_returns", "calculate_daily_portfolio_volatility",
               "calculate_diversification_benefit", "calculate_asset_risk_contribution"}
   /\ validate_weights(args.weights, UniverseOfCall) # "ok") =>
    ret = Raise(validate_weights(args.weights, UniverseOfCall))

----------------------------------------------------------------------------
(* C3 *)

\* every contribution is a number x_k / portfolio_vol and the x_k sum to
\* portfolio_vol squared, i.e. the contributions sum to portfolio_vol
SumsToPortfolioVol(contri, keys, portfolio_vol) ==
  /\ portfolio_vol.kind = "sqrt"
  /\ \A k \in Range(keys) : contri[k].kind = "ratio" /\ contri[k].over = portfolio_vol
  /\ \E d \in {contri[keys[1]].den} :
       /\ \A k \in Range(keys) : contri[k].den = d
       /\ SumSeq([p \in 1..Len(keys) |-> contri[keys[p]].num]) * portfolio_vol.den
            = portfolio_vol.num * d

\* C3 as stated: for every valid weight vector and every log-return table for
\* which calculate_daily_portfolio_volatility returned a number portfolio_vol,
\* the values calculate_asset_risk_contribution returns sum to portfolio_vol.
C3_Original ==
  (/\ op = "calculate_asset_risk_contribution"
   /\ ret.status = "ok"
   /\ args.portfolio_vol.kind = "sqrt") =>
    SumsToPortfolioVol(ret.value, args.weights.keys, args.portfolio_vol)

\* C3 amended: the contributions sum to portfolio_vol whenever portfolio_vol is
\* a number greater than 0; when portfolio_vol is 0 or is no number (fewer than
\* two rows of returns) every contribution is NaN.
C3_EulerDecomposition ==
  (op = "calculate_asset_risk_contribution" /\ ret.status = "ok") =>
    IF args.portfolio_vol.kind = "sqrt" /\ args.portfolio_vol.num > 0
      THEN SumsToPortfolioVol(ret.value, args.weights.keys, args.portfolio_vol)
      ELSE \A k \in Range(args.weights.keys) : ret.value[k] = NaNv

\* two assets with positive weights in an order other than the table's columns,
\* a positive portfolio_vol
C3_Witness ==
  /\ op = "calculate_asset_risk_contribution"
  /\ ret.status = "ok"
  /\ args.weights.keys = <<"B", "A">>
  /\ args.log_returns.cols = <<"A", "B">>
  /\ args.weights.val["A"] = 3
  /\ args.portfolio_vol.kind = "sqrt"
  /\ args.portfolio_vol.num > 0
  /\ ret.value["A"].kind = "ratio"
  /\ ret.value["A"].num # ret.value["B"].num

----------------------------------------------------------------------------
(* C4 *)

\* the dict with the same weights listed in the order ks
Reordered(weights, ks) == [weights EXCEPT !.keys = ks]

\* C4: calculate_daily_portfolio_volatility multiplies the weight of each asset
\* with that asset's row and column of the covariance matrix, so for a weight
\* dict that validate_weights accepts the result is the same for every order
\* in which the dict lists its assets.
C4_OrderIndependent ==
  (op = "calculate_daily_portfolio_volatility" /\ ret.status = "ok") =>
    /\ \A ks \in DistinctSeqs(Range(args.weights.keys), Len(args.weights.keys),
                               Len(args.weights.keys)) :
         calculate_daily_portfolio_volatility(args.log_returns,
                                              Reordered(args.weights, ks)) = ret
    /\ ret.value.kind = "sqrt" =>
         ret.value.num = AlignedQuadForm(args.log_returns, args.weights)

----------------------------------------------------------------------------
(* C5 *)

ExamplePrices == <<[A |-> 100], [A |-> 110], [A |-> 99], [A |-> 121]>>

\* C5: for a strictly positive value series every drawdown is <= 0, it is
\* exactly 0 at every date where the value equals the maximum of the values up
\* to that date, and max drawdown is the minimum of the drawdown series; for
\* the prices [100,110,99,121] the drawdown of the third date is -0.10.
C5_Drawdown ==
  (op = "calculate_drawdown" /\ ret.status = "ok") =>
    LET prices == args.cleaned_prices.rows
        dd == ret.value.drawdown
    IN  \A c \in Range(args.cleaned_prices.cols) :
          /\ Len(dd) = Len(prices)
          /\ \A t \in 1..Len(prices) :
               /\ dd[t][c].den > 0
               /\ dd[t][c].num <= 0
               /\ (\A u \in 1..t : prices[u][c] <= prices[t][c]) => dd[t][c].num = 0
               /\ ret.value.max_drawdown[c].num * dd[t][c].den
                    <= dd[t][c].num * ret.value.max_drawdown[c].den
          /\ \E t \in 1..Len(prices) : ret.value.max_drawdown[c] = dd[t][c]
          /\ prices = ExamplePrices => dd[3][c].num * 10 = -1 * dd[3][c].den

\* the example series: the drawdown is 0 at the peaks 100, 110 and 121, and the
\* max drawdown is the -0.10 of the third date
C5_Witness ==
  /\ op = "calculate_drawdown"
  /\ args.cleaned_prices.rows = ExamplePrices
  /\ ret.value.drawdown[2]["A"].num = 0
  /\ ret.value.drawdown[4]["A"].num = 0
  /\ ret.value.max_drawdown["A"] = Rat(-11, 110)

----------------------------------------------------------------------------
(* C6 *)

\* cell is the simple return of date t: cell = P_t / P_{t-1} - 1
IsSimpleReturn(cell, prices, c, t) ==
  /\ cell.kind = "rat"
  /\ cell.den > 0
  /\ (cell.num + cell.den) * prices[t - 1][c] = prices[t][c] * cell.den

\* C6 as stated: for a price table of n >= 1 rows daily_returns returns a
\* table of n - 1 rows, the first row dropped, whose cell for date t is
\* P_t / P_{t-1} - 1.
C6_Original ==
  (op = "daily_returns" /\ Len(args.prices_df.rows) >= 1) =>
    /\ ret.status = "ok"
    /\ Len(ret.value.rows) = Len(args.prices_df.rows) - 1
    /\ \A t \in 2..Len(args.prices_df.rows), c \in Range(args.prices_df.cols) :
         IsSimpleReturn(ret.value.rows[t - 1][c], args.prices_df.rows, c, t)

\* C6 amended: for a price table of n >= 1 rows daily_returns returns a table
\* of n rows; its first row holds no value (NaN) and its cell for every later
\* date t is P_t / P_{t-1} - 1; for the prices [100,110,99,121] it is
\* [NaN, 0.10, -0.10, 0.2222] (22/99, 0.2222 to four places).
C6_DailyReturns ==
  (op = "daily_returns" /\ Len(args.prices_df.rows) >= 1) =>
    /\ ret.status = "ok"
    /\ ret.value.cols = args.prices_df.cols
    /\ Len(ret.value.rows) = Len(args.prices_df.rows)
    /\ \A c \in Range(args.prices_df.cols) :
         /\ ret.value.rows[1][c] = NaNv
         /\ \A t \in 2..Len(args.prices_df.rows) :
              IsSimpleReturn(ret.value.rows[t][c], args.prices_df.rows, c, t)
         /\ args.prices_df.rows = ExamplePrices =>
              /\ ret.value.rows[2][c].num * 10 = 1 * ret.value.rows[2][c].den
              /\ ret.value.rows[3][c].num * 10 = -1 * ret.value.rows[3][c].den
              /\ (ret.value.rows[4][c].num * 10000) \div ret.value.rows[4][c].den = 2222

\* the example prices went through daily_returns
C6_Witness ==
  /\ op = "daily_returns"
  /\ args.prices_df.rows = ExamplePrices
  /\ ret.status = "ok"
  /\ Len(ret.value.rows) = 4
  /\ ret.value.rows[4]["A"] = Rat(22, 99)

----------------------------------------------------------------------------
(* C7 *)

\* C7: calculate_stressed_assets_returns and calculate_concentration_stress_loss
\* raise, returning nothing, for every shock outside [-1, 0] and accept every
\* shock inside it, -1 and 0 included; for an accepted shock
\* calculate_stressed_assets_returns returns beta_i * shock per asset, and
\* -0.30 for beta 1.5 and shock -0.20.
C7_ShockValidation ==
  /\ op = "calculate_stressed_assets_returns" =>
       /\ (ret.status = "error") = (args.shock_amt < -100 \/ args.shock_amt > 0)
       /\ ret.status = "error" => DOMAIN ret = {"status", "error"}
       /\ ret.status # "error" =>
            /\ ret.status = "ok"
            /\ ret.value.index = args.betas.index
            /\ \A k \in Range(args.betas.index) :
                 /\ ret.value.val[k] = args.betas.val[k] * args.shock_amt
                 /\ (args.betas.val[k] = 15 /\ args.shock_amt = -20) =>
                      ret.value.val[k] = -300
  /\ op = "calculate_concentration_stress_loss" =>
       /\ (ret.status = "error") = (args.stress_amt < -100 \/ args.stress_amt > 0)
       /\ ret.status = "error" => DOMAIN ret = {"status", "error"}
       /\ ret.status # "error" => ret.status = "ok"

\* the shock -1.0 itself was accepted, with a beta of 1.5
C7_Witness ==
  /\ op = "calculate_stressed_assets_returns"
  /\ args.shock_amt = -100
  /\ ret.status = "ok"
  /\ \E k \in Range(args.betas.index) : args.betas.val[k] = 15 /\ ret.value.val[k] = -1500

----------------------------------------------------------------------------
(* C8 *)

\* C8: for an accepted shock calculate_concentration_stress_loss returns a
\* mapping with exactly one entry per asset of the weight vector, and the
\* entry of asset i is w_i * asset_shock.
C8_ConcentrationLoss ==
  (op = "calculate_concentration_stress_loss" /\ ret.status = "ok") =>
    /\ DOMAIN ret.value = Range(args.weights.keys)
    /\ \A k \in Range(args.weights.keys) :
         /\ ret.value[k].kind = "rat"
         /\ ret.value[k].num * args.weights.den * 100
              = args.weights.val[k] * args.stress_amt * ret.value[k].den

\* two assets with different positive weights under the shock -0.40
C8_Witness ==
  /\ op = "calculate_concentration_stress_loss"
  /\ ret.status = "ok"
  /\ args.stress_amt = -40
  /\ Len(args.weights.keys) = 2
  /\ args.weights.val[args.weights.keys[1]] = 3
  /\ args.weights.val[args.weights.keys[2]] = 7
  /\ ret.value[args.weights.keys[1]].num = -120
  /\ ret.value[args.weights.keys[2]].num = -280

----------------------------------------------------------------------------
(* C9 *)

\* x = (w1/den) * sqrt(n1/d) + (w2/den) * sqrt(n2/d) - sqrt(N / (d * den * den))
\* is >= 0, for w1, w2 >= 0: after multiplying by den * sqrt(d) and dividing
\* the radicands by a common factor g, w1 * sqrt(a1) + w2 * sqrt(a2) >= sqrt(M),
\* i.e. 2 * w1 * w2 * sqrt(a1 * a2) >= M - w1^2 * a1 - w2^2 * a2.
DiffNonNeg(x) ==
  LET t1 == x.terms[1]
      t2 == x.terms[2]
      g0 == GCD(GCD(t1.vol.num, t2.vol.num), x.minus.num)
      g  == IF g0 = 0 THEN 1 ELSE g0
      a1 == t1.vol.num \div g
      a2 == t2.vol.num \div g
      M  == x.minus.num \div g
      R  == M - t1.w * t1.w * a1 - t2.w * t2.w * a2
  IN  /\ t1.vol.den = t2.vol.den
      /\ x.minus.den = t1.vol.den * t1.den * t1.den
      /\ \/ R <= 0
         \/ 4 * t1.w * t1.w * t2.w * t2.w * a1 * a2 >= R * R

\* C9: calculate_diversification_benefit returns exactly 0.0 for a valid
\* one-asset portfolio; for a valid portfolio of two assets it returns
\* (sum of w_i * annual_vol_i) - portfolio_annual_vol, and that is >= 0 when
\* the volatilities are numbers derived from the same returns.
C9_DiversificationBenefit ==
  (op = "calculate_diversification_benefit" /\ ret.status = "ok") =>
    IF Len(args.weights.keys) = 1 THEN ret.value = Rat(0, 1)
    ELSE ret.value.kind = "diff" =>
           /\ ret.value.minus = args.portfolio_vol
           /\ \A p \in 1..Len(args.asset_vols.index) :
                /\ ret.value.terms[p].vol = args.asset_vols.val[args.asset_vols.index[p]]
                /\ ret.value.terms[p].w = args.weights.val[args.asset_vols.index[p]]
           /\ DiffNonNeg(ret.value)

----------------------------------------------------------------------------
(* C10 *)

\* the number x is exactly 1
IsOne(x) == x.kind = "corr" /\ x.num > 0 /\ x.num * x.num = x.rad

\* the numbers x and y are equal
SameNumber(x, y) ==
  /\ x.kind = "corr"
  /\ y.kind = "corr"
  /\ (x.num >= 0) = (y.num >= 0)
  /\ x.num * x.num * y.rad = y.num * y.num * x.rad

\* column c holds at least two values and they are not all the same
Varies(df, c) ==
  \E t, u \in 1..Len(df.rows) :
    /\ df.rows[t][c] # <<>>
    /\ df.rows[u][c] # <<>>
    /\ df.rows[t][c] # df.rows[u][c]

\* C10 as stated: for a return table of at least two columns (and at least
\* two rows of values) every diagonal entry of the correlation matrix is
\* exactly 1 and entry (i,j) equals entry (j,i), also when a column of the
\* table is constant.
C10_Original ==
  (/\ op = "calculate_correlation_matrix"
   /\ Len(args.returns_df.cols) >= 2
   /\ Len(ValuedRows(args.returns_df)) >= 2) =>
    /\ ret.status = "ok"
    /\ \A c \in Range(args.returns_df.cols) : IsOne(ret.value.val[c][c])
    /\ \A c, d \in Range(args.returns_df.cols) :
         SameNumber(ret.value.val[c][d], ret.value.val[d][c])

\* C10 amended: for a return table of at least two columns the matrix has the
\* diagonal entry exactly 1 for every column that varies, and entry (i,j) equal
\* to entry (j,i) for every pair of columns that both vary; every entry in the
\* row and column of a column that is constant (or holds fewer than two
\* values), its diagonal entry included, is NaN.
C10_CorrelationMatrix ==
  (op = "calculate_correlation_matrix" /\ Len(args.returns_df.cols) >= 2) =>
    /\ ret.status = "ok"
    /\ \A c, d \in Range(args.returns_df.cols) :
         IF Varies(args.returns_df, c) /\ Varies(args.returns_df, d)
           THEN /\ IsOne(ret.value.val[c][c])
                /\ SameNumber(ret.value.val[c][d], ret.value.val[d][c])
           ELSE ret.value.val[c][d] = NaNv /\ ret.value.val[d][c] = NaNv

\* a table whose two columns vary with different variances and a correlation
\* that is neither 0 nor +-1
C10_Witness ==
  /\ op = "calculate_correlation_matrix"
  /\ ret.status = "ok"
  /\ args.returns_df.cols = <<"A", "B">>
  /\ ret.value.val["A"]["B"].kind = "corr"
  /\ ret.value.val["A"]["B"].num # 0
  /\ ret.value.val["A"]["B"].num * ret.value.val["A"]["B"].num # ret.value.val["A"]["B"].rad
  /\ ret.value.val["A"]["A"].rad # ret.value.val["B"]["B"].rad

----------------------------------------------------------------------------
(* C11 *)

\* C11: calculate_correlation_matrix raises, returning no matrix, when the
\* return table has exactly one column, and returns a matrix (it does not
\* raise) for every table of two or more columns, whatever its rows hold.
C11_SingleColumn ==
  op = "calculate_correlation_matrix" =>
    /\ Len(args.returns_df.cols) = 1 =>
         /\ ret.status = "error"
         /\ ret.error = "Correlation matrix undefined for single-asset portfolio."
    /\ Len(args.returns_df.cols) >= 2 =>
         /\ ret.status = "ok"
         /\ ret.value.cols = args.returns_df.cols

\* a one-column table with rows that vary was handed over and refused
C11_Witness ==
  /\ op = "calculate_correlation_matrix"
  /\ args.returns_df.cols = <<"A">>
  /\ Varies(args.returns_df, "A")
  /\ ret.status = "error"

----------------------------------------------------------------------------
(* C12 *)

\* the dates that both the asset table and the benchmark hold and on which
\* every asset and the benchmark have a value
UsedDates(stock, market) ==
  SelectSeq(stock.index, LAMBDA d :
    /\ d \in Range(market.index)
    /\ \A c \in Range(stock.cols) : RowAt(stock, d)[c] # NaN
    /\ RowAt(market, d)[market.cols[1]] # NaN)

\* n * sum(x * y) - sum(x) * sum(y) over the dates, for the columns c of x and
\* d of y: n * (n - 1) times the sample covariance
DatedCoMoment(dates, x, c, y, d) ==
  Len(dates) * SumSeq([i \in 1..Len(dates) |->
                         RowAt(x, dates[i])[c][1] * RowAt(y, dates[i])[d][1]])
    - SumSeq([i \in 1..Len(dates) |-> RowAt(x, dates[i])[c][1]])
      * SumSeq([i \in 1..Len(dates) |-> RowAt(y, dates[i])[d][1]])

\* the benchmark takes at least two different values over the dates
BenchmarkVaries(dates, market) ==
  Len(dates) >= 2 /\ DatedCoMoment(dates, market, market.cols[1], market, market.cols[1]) > 0

\* the return of asset c is 2 times the benchmark's on every one of the dates
TwiceBenchmark(dates, stock, c, market) ==
  \A i \in 1..Len(dates) :
    RowAt(stock, dates[i])[c][1] = 2 * RowAt(market, dates[i])[market.cols[1]][1]

\* the number x is exactly 2
IsTwo(x) == x.kind = "rat" /\ x.num = 2 * x.den

\* C12 as stated, for its scenario: whenever the return of an asset is 2 times
\* the benchmark's on every date used (two dates or more), the beta returned
\* for it is 2.0, also when the benchmark is constant over those dates.
C12_Original ==
  op = "calculate_beta" =>
    LET dates == UsedDates(args.stock_returns, args.market_returns)
    IN  \A c \in Range(args.stock_returns.cols) :
          (Len(dates) >= 2 /\ TwiceBenchmark(dates, args.stock_returns, c, args.market_returns))
            => (ret.status = "ok" /\ IsTwo(ret.value.val[c]))

\* C12 amended: calculate_beta uses only the dates present in both the asset
\* table and the benchmark on which no value of any asset or of the benchmark
\* is missing; when the benchmark varies over those dates it returns for each
\* asset cov(asset, benchmark) / var(benchmark) over them, which is 2.0 for an
\* asset whose return is 2 times the benchmark's on every such date; when
\* there are fewer than two such dates or the benchmark is constant over them
\* it returns NaN for every asset.
C12_Beta ==
  op = "calculate_beta" =>
    LET stock == args.stock_returns
        market == args.market_returns
        dates == UsedDates(stock, market)
    IN  /\ ret.status = "ok"
        /\ ret.value.index = stock.cols
        /\ \A c \in Range(stock.cols) :
             IF BenchmarkVaries(dates, market)
               THEN /\ ret.value.val[c].kind = "rat"
                    /\ ret.value.val[c].den > 0
                    /\ ret.value.val[c].num
                         * DatedCoMoment(dates, market, market.cols[1], market, market.cols[1])
                       = DatedCoMoment(dates, stock, c, market, market.cols[1])
                         * ret.value.val[c].den
                    /\ TwiceBenchmark(dates, stock, c, market) => IsTwo(ret.value.val[c])
               ELSE ret.value.val[c] = NaNv

\* assets A and B over dates of which the benchmark lacks one and A has no
\* value on another that the benchmark holds; over the two or more dates left
\* A is 2 times the benchmark and B is not a multiple of it
C12_Witness ==
  /\ op = "calculate_beta"
  /\ ret.status = "ok"
  /\ args.stock_returns.cols = <<"A", "B">>
  /\ \E d \in Range(args.stock_returns.index) : d \notin Range(args.market_returns.index)
  /\ \E d \in Range(args.stock_returns.index) \cap Range(args.market_returns.index) :
       /\ RowAt(args.stock_returns, d)["A"] = NaN
       /\ RowAt(args.market_returns, d)["M"] # NaN
  /\ Len(UsedDates(args.stock_returns, args.market_returns)) >= 2
  /\ IsTwo(ret.value.val["A"])
  /\ ret.value.val["B"].kind = "rat"
  /\ ret.value.val["B"].num # 0

----------------------------------------------------------------------------
(* C13 *)

\* the number x is greater than 0
Positive(x) == x.kind # "nan" /\ x.num > 0

\* the sum and the number of the values of column c
ValueSum(df, c) ==
  SumSeq([t \in 1..Len(df.rows) |-> IF df.rows[t][c] = NaN THEN 0 ELSE df.rows[t][c][1]])

ValueCount(df, c) ==
  SumSeq([t \in 1..Len(df.rows) |-> IF df.rows[t][c] = NaN THEN 0 ELSE 1])

----------------------------------------------------------------------------
(* C14 *)

\* the sum of the squares of the values of column c
ValueSquareSum(df, c) ==
  SumSeq([t \in 1..Len(df.rows) |->
            IF df.rows[t][c] = NaN THEN 0 ELSE df.rows[t][c][1] * df.rows[t][c][1]])

\* x is the sample standard deviation of all the values of column c: with n
\* values, x^2 * n * (n - 1) = n * sum(v^2) - sum(v)^2; NaN when n < 2
IsFullSampleStd(x, df, c) ==
  LET n == ValueCount(df, c)
  IN  IF n < 2 THEN x = NaNv
      ELSE /\ x.kind = "sqrt"
           /\ x.den > 0
           /\ x.num * n * (n - 1)
                = (n * ValueSquareSum(df, c) - ValueSum(df, c) * ValueSum(df, c)) * x.den

\* C14: calculate_daily_volatility raises if and only if the table has fewer
\* rows than ROLLING_VOL_WINDOW, rows without values counted (a table of
\* exactly that many rows is accepted); when it does not raise it returns per
\* asset the sample standard deviation of all the values of the column, however
\* many rows the table has beyond the window.
C14_DailyVolatility ==
  op = "calculate_daily_volatility" =>
    /\ ret.status = "error" <=> Len(args.log_returns_df.rows) < ROLLING_VOL_WINDOW
    /\ ret.status = "ok" =>
         /\ ret.value.index = args.log_returns_df.cols
         /\ \A c \in Range(args.log_returns_df.cols) :
              IsFullSampleStd(ret.value.val[c], args.log_returns_df, c)

\* a table of exactly ROLLING_VOL_WINDOW rows, all with values, is accepted
\* and the deviation of a column is positive
C14_Witness ==
  /\ op = "calculate_daily_volatility"
  /\ Len(args.log_returns_df.rows) = ROLLING_VOL_WINDOW
  /\ ret.status = "ok"
  /\ \E c \in Range(args.log_returns_df.cols) :
       ret.value.val[c].kind = "sqrt" /\ ret.value.val[c].num > 0

----------------------------------------------------------------------------
(* C15 *)

\* the cell is the standard deviation of the observations of column c in the
\* ROLLING_VOL_WINDOW rows of the table that end at row t
IsTrailingStd(cell, df, c, t) ==
  /\ cell # NaNv
  /\ cell.kind = "std"
  /\ Len(cell.of) = ROLLING_VOL_WINDOW
  /\ \A i \in 1..ROLLING_VOL_WINDOW :
       /\ cell.of[i] = df.rows[t - ROLLING_VOL_WINDOW + i][c]
       /\ cell.of[i] # NaNv

\* C15 as stated: in the rolling volatility of the log-return table of a price
\* table, exactly the first ROLLING_VOL_WINDOW - 1 rows have no value and every
\* later row holds the standard deviation of the trailing ROLLING_VOL_WINDOW
\* observations.
C15_Original ==
  op = "calculate_rolling_volatility" =>
    /\ ret.status = "ok"
    /\ \A t \in 1..Len(ret.value.rows) : \A c \in Range(args.log_returns_df.cols) :
         IF t <= ROLLING_VOL_WINDOW - 1
           THEN ret.value.rows[t][c] = NaNv
           ELSE IsTrailingStd(ret.value.rows[t][c], args.log_returns_df, c, t)

\* C15 amended: the output has the rows of the log-return table, whose first
\* row has no value; exactly its first ROLLING_VOL_WINDOW rows (all of them
\* when it has no more) have no value, and every later row holds the standard
\* deviation of the trailing ROLLING_VOL_WINDOW log returns.
C15_RollingVolatility ==
  op = "calculate_rolling_volatility" =>
    /\ ret.status = "ok"
    /\ Len(ret.value.rows) = Len(args.log_returns_df.rows)
    /\ \A t \in 1..Len(ret.value.rows) : \A c \in Range(args.log_returns_df.cols) :
         IF t <= ROLLING_VOL_WINDOW
           THEN ret.value.rows[t][c] = NaNv
           ELSE IsTrailingStd(ret.value.rows[t][c], args.log_returns_df, c, t)

\* a price table of ROLLING_VOL_WINDOW + 2 rows: the last row of the output
\* holds the deviation of two different log returns
C15_Witness ==
  /\ op = "calculate_rolling_volatility"
  /\ ret.status = "ok"
  /\ args.log_returns_df.cols = <<"A">>
  /\ Len(ret.value.rows) = ROLLING_VOL_WINDOW + 2
  /\ ret.value.rows[ROLLING_VOL_WINDOW + 2]["A"].kind = "std"
  /\ ret.value.rows[ROLLING_VOL_WINDOW + 2]["A"].of[1].num
       * ret.value.rows[ROLLING_VOL_WINDOW + 2]["A"].of[2].den
     # ret.value.rows[ROLLING_VOL_WINDOW + 2]["A"].of[2].num
       * ret.value.rows[ROLLING_VOL_WINDOW + 2]["A"].of[1].den

----------------------------------------------------------------------------
(* C16 *)

\* the correlation x lies in [-1, 1]
InUnitInterval(x) == x.kind = "corr" /\ x.rad > 0 /\ x.num * x.num <= x.rad

\* x >= y for the correlations x = x.num / sqrt(x.rad) and y likewise
CorrGeq(x, y) ==
  IF x.num >= 0 /\ y.num <= 0 THEN TRUE
  ELSE IF x.num < 0 /\ y.num >= 0 THEN FALSE
  ELSE IF x.num >= 0 THEN x.num * x.num * y.rad >= y.num * y.num * x.rad
  ELSE x.num * x.num * y.rad <= y.num * y.num * x.rad

\* entry (p, q) of the correlation matrix handed over
InputCorr(p, q) == args.corr_matrix.val[args.corr_matrix.cols[p]][args.corr_matrix.cols[q]]

\* the stressed correlation matrix was built and every entry of it is a number
StressedMatrixBuilt ==
  /\ op = "calculate_correlation_breakdown_volatility"
  /\ ret.status = "ok"
  /\ ret.value.kind = "sqrtquad"

\* every entry of the stressed correlation matrix lies in [-1, 1]
C16_InRange ==
  StressedMatrixBuilt =>
    \A p, q \in 1..Len(args.corr_matrix.cols) : InUnitInterval(ret.value.corr[p][q])

\* C16: in the stressed correlation matrix of
\* calculate_correlation_breakdown_volatility every entry lies in [-1, 1] and
\* every pairwise correlation is greater than or equal to the corresponding
\* entry of the input correlation matrix (all correlations rise).
C16_CorrelationsRise ==
  StressedMatrixBuilt =>
    \A p, q \in 1..Len(args.corr_matrix.cols) :
      /\ InUnitInterval(ret.value.corr[p][q])
      /\ CorrGeq(ret.value.corr[p][q], InputCorr(p, q))

----------------------------------------------------------------------------
(* main.py: one run of main().  The prices of a run are powers of 2, so that
   every simple return is a whole number of halves and every log return a
   whole number of ln 2, the units in which the tables above hold them. *)

\* settings.PORTFOLIO_WEIGHTS: any of the weight dicts
ConfiguredWeights == CallWeights

\* what clean_prices returns for the assets: 0..MaxRows rows of prices 2 or 4
\* under the columns A or A, B
FetchedPrices ==
  UNION {{[cols |-> cols, rows |-> r] :
            r \in UNION {[1..n -> [Range(cols) -> {2, 4}]] : n \in 0..MaxRows}} :
         cols \in {<<"A">>, <<"A", "B">>}}

\* what clean_prices returns for the benchmark: no row, or the prices 2, 4, 4
\* up to some date
FetchedBenchmarks ==
  {[cols |-> <<"M">>, rows |-> SubSeq(<<[M |-> 2], [M |-> 4], [M |-> 4]>>, 1, n)] : n \in 0..3}

\* the exponent of a price 2^k
Log2(p) == CHOOSE k \in 0..5 : 2^k = p

\* a table of simple returns (pct_change) with every return in halves
InHalves(df) ==
  [cols |-> df.cols,
   rows |-> [t \in 1..Len(df.rows) |->
               [c \in Range(df.cols) |->
                  IF df.rows[t][c] = NaNv THEN NaN
                  ELSE <<(2 * df.rows[t][c].num) \div df.rows[t][c].den>>]]]

\* a table of log returns with every return in units of ln 2
InLn2(df) ==
  [cols |-> df.cols,
   rows |-> [t \in 1..Len(df.rows) |->
               [c \in Range(df.cols) |->
                  IF df.rows[t][c] = NaNv THEN NaN
                  ELSE <<Log2(df.rows[t][c].num) - Log2(df.rows[t][c].den)>>]]]

\* the table with its dates: row t is date t
Dated(df) == [cols |-> df.cols, index |-> [t \in 1..Len(df.rows) |-> t], rows |-> df.rows]

\* the locals of main(), each as the value of the call that assigns it
\* (main.py:82-153); a local is read only after its call returned
normal_returns == InHalves(daily_returns(cleaned_data).value)

log_returns == InLn2(daily_log_returns(cleaned_data))

daily_volatility == calculate_daily_volatility(log_returns).value

annual_volatility == calculate_annual_volatility(daily_volatility)

correlation_matrix == calculate_correlation_matrix(normal_returns).value

portfolio_daily_volatility ==
  calculate_daily_portfolio_volatility(log_returns, PORTFOLIO_WEIGHTS).value

portfolio_annual_volatility == calculate_annual_portfolio_volatility(portfolio_daily_volatility)

\* market_shock = -0.20 and asset_shock = -0.40 (main.py:139, 144), in hundredths
market_shock == -20

asset_shock == -40

\* the files a run writes
RawPricesFile == "data/raw/prices.csv"

CleanedPricesFile == "data/processed/cleaned_prices.csv"

ResultsFile == "outputs/results.json"

\* an exception leaves main(): it is caught nowhere, the run is over
Propagate(name, error) ==
  /\ stage' = "failed"
  /\ raised' = [stage |-> name, error |-> error]

\* the calls of a stage returned: main() goes on with the next stage
Continue(next) ==
  /\ stage' = next
  /\ raised' = raised

\* a stage of main(): its calls were made in order and error is what the first
\* of them that raised has raised, "none" when all returned
RunStage(name, error, next) ==
  /\ stage = name
  /\ executed' = Append(executed, name)
  /\ IF error # "none" THEN Propagate(name, error) ELSE Continue(next)

\* the test of the shock in calculate_stressed_assets_returns: what it raises
ShockError(shock_amt) ==
  IF ~(ShockMin <= shock_amt /\ shock_amt <= 0)
    THEN "Shock must be between -100% and 0%."
  ELSE "none"

\* what the call with the result r raised
ErrorOf(r) == IF r.status = "error" THEN r.error ELSE "none"
\* main.py:46-53: the settings are read
Configure ==
  /\ stage = "configuration"
  /\ \E weights \in ConfiguredWeights : PORTFOLIO_WEIGHTS' = weights
  /\ executed' = Append(executed, "configuration")
  /\ Continue("ingestion")
  /\ UNCHANGED <<cleaned_data, benchmark_clean, files>>
  /\ UNCHANGED libvars

\* main.py:57-77: fetch_market_data, save the raw prices, clean_prices, save
\* the cleaned prices.  What the download returns is not the program's to
\* choose: either call may raise, or clean_prices returns a price table.
Ingest ==
  /\ stage = "ingestion"
  /\ executed' = Append(executed, "ingestion")
  /\ \/ /\ Propagate("ingestion", "fetch_market_data")
        /\ UNCHANGED <<cleaned_data, files>>
     \/ /\ Propagate("ingestion", "clean_prices")
        /\ files' = files \cup {RawPricesFile}
        /\ UNCHANGED cleaned_data
     \/ /\ \E prices \in FetchedPrices : cleaned_data' = prices
        /\ files' = files \cup {RawPricesFile, CleanedPricesFile}
        /\ Continue("returns")
  /\ UNCHANGED <<PORTFOLIO_WEIGHTS, benchmark_clean>>
  /\ UNCHANGED libvars

\* main.py:82-83: daily_returns, daily_log_returns (which raises nothing)
StageReturns ==
  /\ RunStage("returns", ErrorOf(daily_returns(cleaned_data)), "volatility")
  /\ UNCHANGED <<PORTFOLIO_WEIGHTS, cleaned_data, benchmark_clean, files>>
  /\ UNCHANGED libvars

\* main.py:86-90: calculate_daily_volatility, then the annual and the rolling
\* volatilities (which raise nothing)
StageVolatility ==
  /\ RunStage("volatility", ErrorOf(calculate_daily_volatility(log_returns)), "drawdown")
  /\ UNCHANGED <<PORTFOLIO_WEIGHTS, cleaned_data, benchmark_clean, files>>
  /\ UNCHANGED libvars

\* main.py:93
StageDrawdown ==
  /\ RunStage("drawdown", ErrorOf(calculate_drawdown(cleaned_data)), "correlation")
  /\ UNCHANGED <<PORTFOLIO_WEIGHTS, cleaned_data, benchmark_clean, files>>
  /\ UNCHANGED libvars

\* main.py:96
StageCorrelation ==
  /\ RunStage("correlation", ErrorOf(calculate_correlation_matrix(normal_returns)), "beta")
  /\ UNCHANGED <<PORTFOLIO_WEIGHTS, cleaned_data, benchmark_clean, files>>
  /\ UNCHANGED libvars

\* main.py:99-109: the benchmark is fetched and cleaned (either call may
\* raise), then daily_returns of it and calculate_beta
StageBeta ==
  /\ \/ /\ RunStage("beta", "fetch_market_data", "sharpe")
        /\ UNCHANGED benchmark_clean
     \/ /\ RunStage("beta", "clean_prices", "sharpe")
        /\ UNCHANGED benchmark_clean
     \/ \E benchmark \in FetchedBenchmarks :
          /\ benchmark_clean' = benchmark
          /\ RunStage("beta",
                      IF daily_returns(benchmark).status = "error"
                        THEN daily_returns(benchmark).error
                        ELSE ErrorOf(calculate_beta(
                               Dated(normal_returns),
                               Dated(InHalves(daily_returns(benchmark).value)))),
                      "sharpe")
  /\ UNCHANGED <<PORTFOLIO_WEIGHTS, cleaned_data, files>>
  /\ UNCHANGED libvars

\* main.py:112
StageSharpe ==
  /\ RunStage("sharpe", ErrorOf(calculate_sharpe(normal_returns, annual_volatility)),
              "portfolio aggregation")
  /\ UNCHANGED <<PORTFOLIO_WEIGHTS, cleaned_data, benchmark_clean, files>>
  /\ UNCHANGED libvars

\* main.py:117-133 with every exception of the stage caught and the run going on
StagePortfolio_caught ==
  /\ RunStage("portfolio aggregation", "none", "stress tests")
  /\ UNCHANGED <<PORTFOLIO_WEIGHTS, cleaned_data, benchmark_clean, files>>
  /\ UNCHANGED libvars

\* main.py:117-133: the four operations that validate the weights, in the
\* order of their calls; the annual return, the annual volatility, the value
\* series and its drawdown raise nothing
StagePortfolio ==
  /\ LET returns == calculate_portfolio_returns(normal_returns, PORTFOLIO_WEIGHTS)
         volatility == calculate_daily_portfolio_volatility(log_returns, PORTFOLIO_WEIGHTS)
         benefit == calculate_diversification_benefit(
                      annual_volatility, PORTFOLIO_WEIGHTS, portfolio_annual_volatility)
         contribution == calculate_asset_risk_contribution(
                           PORTFOLIO_WEIGHTS, log_returns, portfolio_daily_volatility)
     IN  RunStage("portfolio aggregation",
                  IF returns.status = "error" THEN returns.error
                  ELSE IF volatility.status = "error" THEN volatility.error
                  ELSE IF benefit.status = "error" THEN benefit.error
                  ELSE ErrorOf(contribution),
                  "stress tests")
  /\ UNCHANGED <<PORTFOLIO_WEIGHTS, cleaned_data, benchmark_clean, files>>
  /\ UNCHANGED libvars

\* main.py:139-153: the market shock, the concentration shock and the
\* correlation breakdown.  Of calculate_stressed_assets_returns only the test
\* of the shock is run here: beta holds ratios and NaN where the operator above
\* takes tenths, and its values have no part in whether the call raises;
\* calculate_portfolio_loss and the annual breakdown volatility raise nothing.
StageStress ==
  /\ LET concentration == calculate_concentration_stress_loss(PORTFOLIO_WEIGHTS, asset_shock)
         breakdown == calculate_correlation_breakdown_volatility(
                        correlation_matrix, daily_volatility, PORTFOLIO_WEIGHTS)
     IN  RunStage("stress tests",
                  IF ShockError(market_shock) # "none" THEN ShockError(market_shock)
                  ELSE IF concentration.status = "error" THEN concentration.error
                  ELSE ErrorOf(breakdown),
                  "visualization")
  /\ UNCHANGED <<PORTFOLIO_WEIGHTS, cleaned_data, benchmark_clean, files>>
  /\ UNCHANGED libvars

\* main.py:158-184: the plots are drawn by src/visualization with plotly;
\* whether one of them raises is not the program's to choose
StageVisualization ==
  /\ \/ RunStage("visualization", "plot", "output")
     \/ RunStage("visualization", "none", "output")
  /\ UNCHANGED <<PORTFOLIO_WEIGHTS, cleaned_data, benchmark_clean, files>>
  /\ UNCHANGED libvars

\* main.py:187-210: the results are collected and written to results.json
StageOutput ==
  /\ RunStage("output", "none", "done")
  /\ files' = files \cup {ResultsFile}
  /\ UNCHANGED <<PORTFOLIO_WEIGHTS, cleaned_data, benchmark_clean>>
  /\ UNCHANGED libvars

MainNext ==
  \/ Configure
  \/ Ingest
  \/ StageReturns
  \/ StageVolatility
  \/ StageDrawdown
  \/ StageCorrelation
  \/ StageBeta
  \/ StageSharpe
  \/ StagePortfolio
  \/ StageStress
  \/ StageVisualization
  \/ StageOutput

MainSpec == Init /\ [][MainNext]_vars

----------------------------------------------------------------------------
(* C17 *)

\* the stages of the analysis, in the order stated
StageOrder ==
  <<"returns", "volatility", "drawdown", "correlation", "beta", "sharpe",
    "portfolio aggregation", "stress tests", "output">>

\* the stages of the analysis that the run has executed, in the order in which
\* it executed them
AnalysisExecuted == SelectSeq(executed, LAMBDA s : s \in Range(StageOrder))

IsPrefix(s, t) == Len(s) <= Len(t) /\ \A i \in 1..Len(s) : s[i] = t[i]

\* every call of the run that can raise has returned: the prices and the
\* benchmark are not empty, there are at least ROLLING_VOL_WINDOW rows and two
\* assets, no annual volatility is <= 0, the weights are valid for the assets,
\* both shocks lie in [-1, 0], and the correlation breakdown found its shapes
\* aligned
EveryStageSucceeded ==
  /\ Len(cleaned_data.rows) >= 1
  /\ Len(cleaned_data.rows) >= ROLLING_VOL_WINDOW
  /\ Len(cleaned_data.cols) >= 2
  /\ Len(benchmark_clean.rows) >= 1
  /\ \A c \in Range(cleaned_data.cols) : ~LeqZero(annual_volatility.val[c])
  /\ ~WeightsInvalid(PORTFOLIO_WEIGHTS, cleaned_data.cols)
  /\ ShockMin <= market_shock /\ market_shock <= 0
  /\ ShockMin <= asset_shock /\ asset_shock <= 0
  /\ Len(PORTFOLIO_WEIGHTS.keys) = Len(cleaned_data.cols)

\* C17: in a run of main() the stages are executed in the order returns,
\* volatility, drawdown, correlation, beta, Sharpe, portfolio aggregation,
\* stress tests, output, each at most once; once a stage has raised, the run has
\* failed with that stage the last one executed (no later stage executes) and
\* without results.json; and results.json is written only when every stage
\* has been executed and has succeeded, the validation of the weights and of
\* both shocks included.
C17_MainRun ==
  /\ IsPrefix(AnalysisExecuted, StageOrder)
  /\ raised # NoError =>
       /\ stage = "failed"
       /\ executed # <<>>
       /\ executed[Len(executed)] = raised.stage
       /\ ResultsFile \notin files
  /\ ResultsFile \in files =>
       /\ raised = NoError
       /\ AnalysisExecuted = StageOrder
       /\ EveryStageSucceeded

\* a run over two assets that went through every stage and wrote results.json
C17_Witness ==
  /\ stage = "done"
  /\ ResultsFile \in files
  /\ Len(cleaned_data.rows) = MaxRows
  /\ AnalysisExecuted = StageOrder

\* a run that the validation of the weights ended: the weights sum to 1.1, the
\* portfolio aggregation is the last stage executed, results.json is not written
C17_FailedRun ==
  /\ raised.stage = "portfolio aggregation"
  /\ raised.error = "Portfolio weights must sum to 1."
  /\ stage = "failed"
  /\ executed[Len(executed)] = "portfolio aggregation"
  /\ ResultsFile \notin files

====
